---- MODULE Spec2Model ----
(***************************************************************************)
(* Model of src/schedulers.cpp: the four scheduling policies RoundRobin,   *)
(* ShortestProcessNext, ShortestRemainingTime and HighestResponseRatioNext *)
(* with their function-local static state, driven one tick at a time.      *)
(*                                                                         *)
(* Table indices are the source's 0-based indices; the ready collections   *)
(* are TLA+ sequences, so the source's ready[0] is position 1 here.        *)
(*                                                                         *)
(* Reading ready[0] of an empty deque/vector and pop_front()/erase(begin)  *)
(* on an empty one are undefined behaviour.  Their outcomes are modelled   *)
(* as a choice between: the program crashes; the garbage isDone flag reads *)
(* false and the retire step is skipped; the removal goes ahead and leaves *)
(* the container's bookkeeping broken (corrupt), after which its observed  *)
(* contents are arbitrary at every later call.                             *)
(***************************************************************************)
EXTENDS Integers, Sequences, FiniteSets, TLC

NumProcs == 2
MaxStart == 3
MaxNeed == 2
MaxQuantum == 2
MaxTime == 6
MaxBrokenCalls == 2

None == -1

Procs == 0 .. (NumProcs - 1)
Policies == {"RR", "SPN", "SRT", "HRRN"}

VARIABLES
  policy,            \* the policy the driver uses
  timeQuantum,       \* RoundRobin's timeQuantum argument
  procList,          \* the process table
  curTime,           \* the tick of the current / next call
  pc,                \* "select": a call is due; "drive": the call returned; "crashed"
  idx,               \* the value returned by the last call
  timeToNextSched,   \* RoundRobin: static int timeToNextSched
  ready,             \* RoundRobin: static deque<int> ready
  curRunning,        \* ShortestProcessNext: static int curRunning
  readySRT,          \* ShortestRemainingTime: static vector<int> ready
  readyProcesses,    \* HighestResponseRatioNext: static vector<int> readyProcesses
  corrupt,           \* the ready container was popped/erased while empty
  brokenCalls,       \* calls made on the container since then
  emptyHeadRead,     \* the last call accessed ready[0] of an empty container
  everUB,            \* some call of the behaviour did so
  scanCount,         \* how often the arrival scan appended each index in this run
  prevIdx,           \* the value returned by the call before the last one
  sinceAlone,        \* consecutive returns of idx since it last was the only ready process
  run,               \* 1 for the first simulation run, 2 for the second
  fresh              \* a freshly initialised policy instance fed the same calls

vars == <<policy, timeQuantum, procList, curTime, pc, idx, timeToNextSched, ready,
          curRunning, readySRT, readyProcesses, corrupt, brokenCalls, emptyHeadRead,
          everUB, scanCount, prevIdx, sinceAlone, run, fresh>>

----------------------------------------------------------------------------
(* The process table *)

Process == [startTime : 0 .. MaxStart, totalTimeNeeded : 1 .. MaxNeed,
            timeScheduled : {0}, isDone : {FALSE}]

Tables == [Procs -> Process]

AllDone(pl) == \A i \in Procs : pl[i].isDone

\* processes that have arrived and are not done at tick t
ReadySet(t, pl) == {i \in Procs : pl[i].startTime <= t /\ ~pl[i].isDone}

----------------------------------------------------------------------------
(* Helpers shared by the policies *)

IsNewlyReadyLe(p, t) == p.startTime <= t

\* the test of the arrival scan: procList[i].startTime == curTime
IsNewlyReady(p, t) == p.startTime = t

RECURSIVE ArrivalScan(_, _, _)
\* the arrival loop: the indices pushed to the back, in table order
ArrivalScan(i, t, pl) ==
  IF i >= NumProcs THEN <<>>
  ELSE (IF IsNewlyReady(pl[i], t) THEN <<i>> ELSE <<>>) \o ArrivalScan(i + 1, t, pl)

Arrivals(t, pl) == ArrivalScan(0, t, pl)

Occurrences(s, i) == Cardinality({k \in DOMAIN s : s[k] = i})

Swap(s, a, b) == [s EXCEPT ![a] = s[b], ![b] = s[a]]

\* what a container whose bookkeeping is broken may be seen to hold
GarbageReady == {<<>>} \cup {<<a>> : a \in Procs} \cup {<<a, b>> : a \in Procs, b \in Procs}

\* the contents a call works on after its arrival scan
Observed(r, t, pl) == IF corrupt THEN GarbageReady ELSE {r \o Arrivals(t, pl)}

----------------------------------------------------------------------------
(* RoundRobin *)

\* lines 27-42 on a non-empty queue: retire the head when the slice is over or it is done
RRRetire(r, tt, pl, q) ==
  IF tt = 0 \/ pl[r[1]].isDone
  THEN [ready |-> IF ~pl[r[1]].isDone THEN Tail(r) \o <<r[1]>> ELSE Tail(r), tt |-> q]
  ELSE [ready |-> r, tt |-> tt]

RRDispatchNoReset(r, tt) ==
  IF Len(r) > 0 THEN [ready |-> r, tt |-> tt - 1, idx |-> r[1]]
  ELSE [ready |-> r, tt |-> tt, idx |-> None]

\* lines 45-58: hand out the head, or none
RRDispatch(r, tt) ==
  IF Len(r) > 0 THEN [ready |-> r, tt |-> tt - 1, idx |-> r[1]]
  ELSE [ready |-> r, tt |-> 0, idx |-> None]

RRCall(r, tt, pl, q) == LET s == RRRetire(r, tt, pl, q) IN RRDispatch(s.ready, s.tt)

----------------------------------------------------------------------------
(* ShortestProcessNext *)

NeedsReselectAlways(cur, pl) == TRUE

\* line 72: curRunning == -1 || procList[curRunning].isDone
NeedsReselect(cur, pl) == cur = None \/ pl[cur].isDone

RECURSIVE SPNScanLe(_, _, _, _)
SPNScanLe(i, t, pl, shortestIndex) ==
  IF i >= NumProcs THEN shortestIndex
  ELSE IF /\ pl[i].startTime <= t
          /\ ~pl[i].isDone
          /\ (shortestIndex = None \/ pl[i].totalTimeNeeded <= pl[shortestIndex].totalTimeNeeded)
       THEN SPNScanLe(i + 1, t, pl, i)
       ELSE SPNScanLe(i + 1, t, pl, shortestIndex)

RECURSIVE SPNScan(_, _, _, _)
\* lines 74-79: forward scan with strict <; shortest = None stands for INT_MAX
SPNScan(i, t, pl, shortestIndex) ==
  IF i >= NumProcs THEN shortestIndex
  ELSE IF /\ pl[i].startTime <= t
          /\ ~pl[i].isDone
          /\ (shortestIndex = None \/ pl[i].totalTimeNeeded < pl[shortestIndex].totalTimeNeeded)
       THEN SPNScan(i + 1, t, pl, i)
       ELSE SPNScan(i + 1, t, pl, shortestIndex)

SPNCallScanOnly(cur, t, pl) ==
  IF NeedsReselect(cur, pl) THEN SPNScan(0, t, pl, None) ELSE cur

\* lines 68-83: the scan result replaces curRunning only when one was found
SPNCall(cur, t, pl) ==
  LET shortestIndex == IF NeedsReselect(cur, pl) THEN SPNScan(0, t, pl, None) ELSE None
  IN IF shortestIndex # None THEN shortestIndex ELSE cur

----------------------------------------------------------------------------
(* ShortestRemainingTime *)

remainingTime(pl, i) == pl[i].totalTimeNeeded - pl[i].timeScheduled

RECURSIVE SRTScan(_, _, _, _)
\* lines 119-129, positions 1-based
SRTScan(r, pl, i, minIndex) ==
  IF i > Len(r) THEN minIndex
  ELSE IF remainingTime(pl, r[i]) < remainingTime(pl, r[minIndex])
       THEN SRTScan(r, pl, i + 1, i)
       ELSE IF remainingTime(pl, r[i]) = remainingTime(pl, r[minIndex])
            THEN SRTScan(r, pl, i + 1, IF r[i] < r[minIndex] THEN i ELSE minIndex)
            ELSE SRTScan(r, pl, i + 1, minIndex)

\* lines 116-141: move the shortest to the front and return it
SRTPick(r, pl) ==
  IF r # <<>>
  THEN LET s == Swap(r, 1, SRTScan(r, pl, 2, 1)) IN [ready |-> s, idx |-> s[1]]
  ELSE [ready |-> r, idx |-> None]

\* lines 110-141 on a non-empty list
SRTCall(r, pl) == SRTPick(IF pl[r[1]].isDone THEN Tail(r) ELSE r, pl)

----------------------------------------------------------------------------
(* HighestResponseRatioNext *)

calculateWaitingTime(pl, t, i) == t - pl[i].startTime - pl[i].timeScheduled

\* calculateResponseRatio(i) > calculateResponseRatio(j).  The source divides
\* floats; for the small integers of the model the quotients are compared
\* exactly, so the comparison is the one of the fractions.
RatioGreater(pl, t, i, j) ==
  (calculateWaitingTime(pl, t, i) + pl[i].totalTimeNeeded) * pl[j].totalTimeNeeded
    > (calculateWaitingTime(pl, t, j) + pl[j].totalTimeNeeded) * pl[i].totalTimeNeeded

RatioEqual(pl, t, i, j) ==
  (calculateWaitingTime(pl, t, i) + pl[i].totalTimeNeeded) * pl[j].totalTimeNeeded
    = (calculateWaitingTime(pl, t, j) + pl[j].totalTimeNeeded) * pl[i].totalTimeNeeded

RECURSIVE HRRNScan(_, _, _, _, _)
\* lines 172-180, positions 1-based
HRRNScan(r, pl, t, i, highestRatioIndex) ==
  IF i > Len(r) THEN highestRatioIndex
  ELSE IF RatioGreater(pl, t, r[i], r[highestRatioIndex])
       THEN HRRNScan(r, pl, t, i + 1, i)
       ELSE IF RatioEqual(pl, t, r[i], r[highestRatioIndex])
            THEN HRRNScan(r, pl, t, i + 1,
                          IF r[i] < r[highestRatioIndex] THEN i ELSE highestRatioIndex)
            ELSE HRRNScan(r, pl, t, i + 1, highestRatioIndex)

\* lines 168-183: after the head was erased, bring the highest ratio to the front
HRRNRank(r, pl, t) == IF r # <<>> THEN Swap(r, 1, HRRNScan(r, pl, t, 2, 1)) ELSE r

\* lines 186-190
HRRNHead(r) == [ready |-> r, idx |-> IF r # <<>> THEN r[1] ELSE None]

\* lines 165-190 on a non-empty list
HRRNCall(r, pl, t) == HRRNHead(IF pl[r[1]].isDone THEN HRRNRank(Tail(r), pl, t) ELSE r)

----------------------------------------------------------------------------
(* A freshly initialised instance of the policy in use, fed the same calls. *)
(* It stops being tracked (ok = FALSE) once it would read the head of an    *)
(* empty container.                                                         *)

FreshInit(q) == [ok |-> TRUE, tt |-> q, ready |-> <<>>, cur |-> None, idx |-> None]

FreshNext(f, t, pl, q) ==
  IF ~f.ok THEN f
  ELSE IF policy = "SPN"
       THEN [f EXCEPT !.cur = SPNCall(f.cur, t, pl), !.idx = SPNCall(f.cur, t, pl)]
       ELSE LET r1 == f.ready \o Arrivals(t, pl)
            IN IF r1 = <<>> THEN [f EXCEPT !.ok = FALSE]
               ELSE IF policy = "RR"
                    THEN LET c == RRCall(r1, f.tt, pl, q)
                         IN [f EXCEPT !.ready = c.ready, !.tt = c.tt, !.idx = c.idx]
                    ELSE IF policy = "SRT"
                         THEN LET c == SRTCall(r1, pl)
                              IN [f EXCEPT !.ready = c.ready, !.idx = c.idx]
                         ELSE LET c == HRRNCall(r1, pl, t)
                              IN [f EXCEPT !.ready = c.ready, !.idx = c.idx]

----------------------------------------------------------------------------
(* The state after construction: static state as initialised on first use *)

Init ==
  /\ policy \in Policies
  /\ timeQuantum \in 1 .. MaxQuantum
  /\ procList \in Tables
  /\ curTime = 0
  /\ pc = "select"
  /\ idx = None
  /\ timeToNextSched = timeQuantum
  /\ ready = <<>>
  /\ curRunning = None
  /\ readySRT = <<>>
  /\ readyProcesses = <<>>
  /\ corrupt = FALSE
  /\ brokenCalls = 0
  /\ emptyHeadRead = FALSE
  /\ everUB = FALSE
  /\ scanCount = [i \in Procs |-> 0]
  /\ prevIdx = None
  /\ sinceAlone = 0
  /\ run = 1
  /\ fresh = FreshInit(timeQuantum)

\* the driver calls the policy once per tick until every process is done
\* (a run on a broken container is followed for MaxBrokenCalls further calls)
CallDue(p) ==
  /\ pc = "select"
  /\ policy = p
  /\ curTime <= MaxTime
  /\ ~AllDone(procList)
  /\ brokenCalls < MaxBrokenCalls

ReturnAccounted(i) ==
  /\ idx' = i
  /\ prevIdx' = idx
  /\ pc' = "drive"
  /\ sinceAlone' = IF i = None \/ ReadySet(curTime, procList) \subseteq {i} THEN 0
                   ELSE IF i = idx THEN sinceAlone + 1 ELSE 1
  /\ fresh' = FreshNext(fresh, curTime, procList, timeQuantum)
  /\ brokenCalls' = IF corrupt THEN brokenCalls + 1 ELSE brokenCalls
  /\ procList' = IF i = None THEN procList
                 ELSE [procList EXCEPT ![i].timeScheduled = @ + 1]
  /\ UNCHANGED <<policy, timeQuantum, curTime, run>>

\* the call returns i; the table, passed by reference, is only read
Return(i) ==
  /\ idx' = i
  /\ prevIdx' = idx
  /\ pc' = "drive"
  /\ sinceAlone' = IF i = None \/ ReadySet(curTime, procList) \subseteq {i} THEN 0
                   ELSE IF i = idx THEN sinceAlone + 1 ELSE 1
  /\ fresh' = FreshNext(fresh, curTime, procList, timeQuantum)
  /\ brokenCalls' = IF corrupt THEN brokenCalls + 1 ELSE brokenCalls
  /\ UNCHANGED <<policy, timeQuantum, procList, curTime, run>>

\* the call reads ready[0] of an empty container and the program dies
Crash ==
  /\ pc' = "crashed"
  /\ UNCHANGED <<policy, timeQuantum, procList, curTime, run, idx, prevIdx, sinceAlone,
                 fresh, timeToNextSched, ready, curRunning, readySRT, readyProcesses,
                 corrupt, brokenCalls>>

Scanned == [i \in Procs |-> scanCount[i] + Occurrences(Arrivals(curTime, procList), i)]

RoundRobin ==
  /\ CallDue("RR")
  /\ scanCount' = Scanned
  /\ UNCHANGED <<curRunning, readySRT, readyProcesses>>
  /\ \E r1 \in Observed(ready, curTime, procList) :
       IF r1 # <<>>
       THEN LET c == RRCall(r1, timeToNextSched, procList, timeQuantum)
            IN /\ ready' = c.ready
               /\ timeToNextSched' = c.tt
               /\ Return(c.idx)
               /\ emptyHeadRead' = FALSE
               /\ UNCHANGED <<corrupt, everUB>>
       ELSE /\ emptyHeadRead' = TRUE
            /\ everUB' = TRUE
            /\ \/ Crash
               \/ \* the garbage flag reads "not done": nothing is retired for good
                  /\ ready' = <<>>
                  /\ timeToNextSched' = 0
                  /\ Return(None)
                  /\ UNCHANGED corrupt
               \/ \* the garbage flag reads "done": pop_front() on the empty deque
                  /\ corrupt' = TRUE
                  /\ \E g \in GarbageReady :
                       LET c == RRDispatch(g, timeQuantum)
                       IN /\ ready' = c.ready
                          /\ timeToNextSched' = c.tt
                          /\ Return(c.idx)

ShortestProcessNext ==
  /\ CallDue("SPN")
  /\ curRunning' = SPNCall(curRunning, curTime, procList)
  /\ Return(SPNCall(curRunning, curTime, procList))
  /\ emptyHeadRead' = FALSE
  /\ UNCHANGED <<timeToNextSched, ready, readySRT, readyProcesses, corrupt, everUB,
                 scanCount>>

ShortestRemainingTime ==
  /\ CallDue("SRT")
  /\ scanCount' = Scanned
  /\ UNCHANGED <<timeToNextSched, ready, curRunning, readyProcesses>>
  /\ \E r1 \in Observed(readySRT, curTime, procList) :
       IF r1 # <<>>
       THEN /\ readySRT' = SRTCall(r1, procList).ready
            /\ Return(SRTCall(r1, procList).idx)
            /\ emptyHeadRead' = FALSE
            /\ UNCHANGED <<corrupt, everUB>>
       ELSE /\ emptyHeadRead' = TRUE
            /\ everUB' = TRUE
            /\ \/ Crash
               \/ \* the garbage flag reads "not done": no removal
                  /\ readySRT' = <<>>
                  /\ Return(None)
                  /\ UNCHANGED corrupt
               \/ \* the garbage flag reads "done": erase(begin()) on the empty vector
                  /\ corrupt' = TRUE
                  /\ \E g \in GarbageReady :
                       /\ readySRT' = SRTPick(g, procList).ready
                       /\ Return(SRTPick(g, procList).idx)

HighestResponseRatioNext ==
  /\ CallDue("HRRN")
  /\ scanCount' = Scanned
  /\ UNCHANGED <<timeToNextSched, ready, curRunning, readySRT>>
  /\ \E r1 \in Observed(readyProcesses, curTime, procList) :
       IF r1 # <<>>
       THEN /\ readyProcesses' = HRRNCall(r1, procList, curTime).ready
            /\ Return(HRRNCall(r1, procList, curTime).idx)
            /\ emptyHeadRead' = FALSE
            /\ UNCHANGED <<corrupt, everUB>>
       ELSE /\ emptyHeadRead' = TRUE
            /\ everUB' = TRUE
            /\ \/ Crash
               \/ \* the garbage flag reads "not done": no removal
                  /\ readyProcesses' = <<>>
                  /\ Return(None)
                  /\ UNCHANGED corrupt
               \/ \* the garbage flag reads "done": erase(begin()) on the empty vector
                  /\ corrupt' = TRUE
                  /\ \E g \in GarbageReady :
                       /\ readyProcesses' = HRRNHead(HRRNRank(g, procList, curTime)).ready
                       /\ Return(HRRNHead(HRRNRank(g, procList, curTime)).idx)

\* the driver after a tick: account the tick to the returned process
Drive ==
  /\ pc = "drive"
  /\ procList' = IF idx = None THEN procList
                 ELSE [procList EXCEPT
                         ![idx].timeScheduled = @ + 1,
                         ![idx].isDone = @ \/ (procList[idx].timeScheduled + 1
                                                 = procList[idx].totalTimeNeeded)]
  /\ curTime' = curTime + 1
  /\ pc' = "select"
  /\ UNCHANGED <<policy, timeQuantum, idx, timeToNextSched, ready, curRunning, readySRT,
                 readyProcesses, corrupt, brokenCalls, emptyHeadRead, everUB, scanCount,
                 prevIdx, sinceAlone, run, fresh>>

\* a second simulation run of the same workload: a new table, time restarts,
\* the policies' static state is whatever the first run left behind
NewRun ==
  /\ pc = "select"
  /\ run = 1
  /\ AllDone(procList)
  /\ run' = 2
  /\ procList' = [i \in Procs |-> [procList[i] EXCEPT !.timeScheduled = 0, !.isDone = FALSE]]
  /\ curTime' = 0
  /\ idx' = None
  /\ prevIdx' = None
  /\ sinceAlone' = 0
  /\ emptyHeadRead' = FALSE
  /\ scanCount' = [i \in Procs |-> 0]
  /\ fresh' = FreshInit(timeQuantum)
  /\ UNCHANGED <<policy, timeQuantum, pc, timeToNextSched, ready, curRunning, readySRT,
                 readyProcesses, corrupt, brokenCalls, everUB>>

Next ==
  \/ RoundRobin
  \/ ShortestProcessNext
  \/ ShortestRemainingTime
  \/ HighestResponseRatioNext
  \/ Drive

Spec == Init /\ [][Next]_vars

NextRuns == Next \/ NewRun

SpecRuns == Init /\ [][NextRuns]_vars

----------------------------------------------------------------------------
(* Properties *)

\* the ready collection of the policy in use
ReadyOf == IF policy = "RR" THEN ready ELSE IF policy = "SRT" THEN readySRT ELSE readyProcesses

QueuePolicies == {"RR", "SRT", "HRRN"}

\* C1: Round Robin never returns the same index on more than timeQuantum
\* consecutive ticks on which another process was ready as well.
C1_QuantumBound == policy = "RR" => sinceAlone <= timeQuantum

\* C1 on the behaviours in which no call ever accessed the head of an empty queue
C1_QuantumBound_Intact == ~everUB => C1_QuantumBound

\* i is, among the processes ready at the call, one of minimal remaining time
\* and of smallest table index among those
ShortestRemaining(i) ==
  \A j \in ReadySet(curTime, procList) :
    /\ remainingTime(procList, i) <= remainingTime(procList, j)
    /\ remainingTime(procList, i) = remainingTime(procList, j) => i <= j

\* C2: whenever Shortest Remaining Time returns an index, no ready process has
\* less remaining time, and none with the same remaining time has a smaller index.
C2_ShortestRemaining ==
  (policy = "SRT" /\ pc = "drive" /\ idx # None) => ShortestRemaining(idx)

C2_ShortestRemaining_Intact == ~everUB => C2_ShortestRemaining

\* C3: Shortest Process Next returns the index it returned at the previous call
\* as long as that process is not done, whatever has arrived meanwhile.
C3_NonPreemptive ==
  (policy = "SPN" /\ pc = "drive" /\ prevIdx # None /\ ~procList[prevIdx].isDone)
    => idx = prevIdx

\* a call kept the running process although a shorter process had arrived
C3_Witness ==
  /\ policy = "SPN" /\ pc = "drive" /\ prevIdx # None /\ idx = prevIdx
  /\ ~procList[idx].isDone
  /\ \E j \in ReadySet(curTime, procList) :
       /\ procList[j].totalTimeNeeded < procList[idx].totalTimeNeeded
       /\ procList[j].startTime > procList[idx].startTime

\* i is the ready process of highest response ratio, smallest index among equals
HighestRatio(i) ==
  /\ i \in ReadySet(curTime, procList)
  /\ \A j \in ReadySet(curTime, procList) :
       /\ ~RatioGreater(procList, curTime, j, i)
       /\ RatioEqual(procList, curTime, j, i) => i <= j

\* C4: Highest Response Ratio Next repeats the previous index while that process
\* is not done; on the call after it completed, the index returned is the ready
\* process of highest response ratio, the smallest index among equal ratios.
C4_RankAtCompletion ==
  (policy = "HRRN" /\ pc = "drive" /\ prevIdx # None)
    => IF ~procList[prevIdx].isDone THEN idx = prevIdx
       ELSE (idx # None \/ ReadySet(curTime, procList) # {}) => HighestRatio(idx)

C4_RankAtCompletion_Intact == ~everUB => C4_RankAtCompletion

NoneArrived == \A i \in Procs : procList[i].startTime > curTime

\* C5: a call made while no process has arrived returns none and does not
\* access the head of the empty ready collection.
C5_IdleBeforeArrival ==
  (run = 1 /\ pc \in {"drive", "crashed"} /\ NoneArrived)
    => (pc = "drive" /\ idx = None /\ ~emptyHeadRead)

\* C6: a call of a queue policy on a drained ready collection, on a tick
\* without arrival, returns none and does not access the head of the collection.
C6_DrainedIdle ==
  [][(/\ pc = "select"
      /\ policy \in QueuePolicies
      /\ ~corrupt
      /\ ReadyOf = <<>>
      /\ \E i \in Procs : procList[i].startTime < curTime
      /\ Arrivals(curTime, procList) = <<>>
      /\ pc' # "select")
       => (pc' = "drive" /\ idx' = None /\ ~emptyHeadRead')]_vars

\* the scan of the call at i's start time has run
ScanPassed(i) ==
  \/ procList[i].startTime < curTime
  \/ procList[i].startTime = curTime /\ pc # "select"

\* C7: the arrival scan has appended a process exactly once as soon as the call
\* at its start time has run, and not at all before.
C7_ScannedOnce ==
  policy \in QueuePolicies
    => \A i \in Procs : scanCount[i] = IF ScanPassed(i) THEN 1 ELSE 0

\* a process that arrived after tick 0 was appended, and later calls followed
C7_Witness ==
  /\ policy \in QueuePolicies
  /\ \E i \in Procs :
       /\ procList[i].startTime > 0
       /\ scanCount[i] = 1
       /\ curTime > procList[i].startTime + 1

\* C8: between calls every entry of the ready collection has arrived and is not
\* done, except that the head may be the process that has just finished.
C8_ReadyEntriesReady ==
  (policy \in QueuePolicies /\ pc \in {"select", "drive"})
    => \A k \in 1 .. Len(ReadyOf) :
         /\ procList[ReadyOf[k]].startTime <= curTime
         /\ procList[ReadyOf[k]].isDone => (k = 1 /\ pc = "select" /\ ReadyOf[k] = idx)

C8_ReadyEntriesReady_Intact == ~everUB => C8_ReadyEntriesReady

\* C9: when a Round Robin call has returned, no index is in the queue twice.
C9_NoDuplicate ==
  (policy = "RR" /\ pc = "drive")
    => \A k, l \in 1 .. Len(ready) : ready[k] = ready[l] => k = l

C9_NoDuplicate_Intact == ~everUB => C9_NoDuplicate

\* C10: in a second run every call returns what a freshly initialised policy
\* returns for the same table.
C10_SecondRunAsFresh == (run = 2 /\ pc = "drive" /\ fresh.ok) => idx = fresh.idx

----------------------------------------------------------------------------
(* Specifications for the claims on a single policy and on termination *)

InitSPN == Init /\ policy = "SPN"

NextSPN == ShortestProcessNext \/ Drive

\* the driver using Shortest Process Next only
SpecSPN == InitSPN /\ [][NextSPN]_vars

\* the driver loop is the only thread and always takes its next step
LiveSpec == Init /\ [][Next]_vars /\ WF_vars(Next)

\* the model stops following the run
BoundReached == curTime > MaxTime \/ brokenCalls >= MaxBrokenCalls

----------------------------------------------------------------------------

\* j entered the queue before i: earlier tick, or the same tick and earlier in the table
EnteredBefore(j, i) ==
  \/ procList[j].startTime < procList[i].startTime
  \/ procList[j].startTime = procList[i].startTime /\ j < i

\* C11: when Round Robin returns a process that has not run yet, no process
\* that entered the queue before it is still waiting for its first tick.
C11_FirstServedInEntryOrder ==
  (policy = "RR" /\ pc = "drive" /\ idx # None /\ procList[idx].timeScheduled = 0)
    => \A j \in Procs :
         (/\ procList[j].startTime <= curTime
          /\ procList[j].timeScheduled = 0
          /\ j # idx)
           => ~EnteredBefore(j, idx)

\* some process has been handed out by an earlier call of the run
EverRan == \E i \in Procs : procList[i].timeScheduled > 0

\* C12: Shortest Process Next returns none exactly when no earlier call selected
\* a process and no process is ready; otherwise it returns a table index.
C12_NoneOnlyBeforeFirst ==
  (policy = "SPN" /\ pc = "drive")
    => /\ idx = None <=> (~EverRan /\ ReadySet(curTime, procList) = {})
       /\ idx # None => idx \in Procs

\* a call in an idle gap after a completion still returned an index, and a
\* call before the first arrival returned none
C12_Witness ==
  /\ policy = "SPN" /\ pc = "drive"
  /\ \/ idx = None /\ curTime >= 1
     \/ idx # None /\ EverRan /\ ReadySet(curTime, procList) = {}

\* C13: a call of a policy leaves the process table as it is.
C13_SelectReadsOnly == [][pc = "select" => procList' = procList]_vars

\* a call has returned a process that the driver had already advanced
C13_Witness == pc = "drive" /\ idx # None /\ procList[idx].timeScheduled > 0

\* i is the ready process of least total time, smallest index among equals
ShortestTotal(i) ==
  /\ i \in ReadySet(curTime, procList)
  /\ \A j \in ReadySet(curTime, procList) :
       /\ procList[i].totalTimeNeeded <= procList[j].totalTimeNeeded
       /\ procList[i].totalTimeNeeded = procList[j].totalTimeNeeded => i <= j

\* C14: with no current process, or a finished one, Shortest Process Next
\* returns the ready process of least totalTimeNeeded, the smallest index among
\* equals; with an unfinished current process it returns that process.
C14_SelectsShortest ==
  (policy = "SPN" /\ pc = "drive")
    => IF prevIdx = None \/ procList[prevIdx].isDone
       THEN ReadySet(curTime, procList) # {} => ShortestTotal(idx)
       ELSE idx = prevIdx

\* a selection chose between two ready processes of equal total time
C14_Witness ==
  /\ policy = "SPN" /\ pc = "drive" /\ idx # None
  /\ (prevIdx = None \/ procList[prevIdx].isDone)
  /\ \E j \in ReadySet(curTime, procList) :
       j # idx /\ procList[j].totalTimeNeeded = procList[idx].totalTimeNeeded

\* C15: when the running process's slice is over and it is not done, the call
\* queues the arrivals of the tick, then the running process behind them, and
\* returns the new head with the countdown at timeQuantum - 1.
C15_PreemptedGoesLast ==
  [][(/\ pc = "select"
      /\ policy = "RR"
      /\ idx # None
      /\ ready # <<>>
      /\ ready[1] = idx
      /\ timeToNextSched = 0
      /\ ~procList[idx].isDone
      /\ pc' # "select")
       => (/\ pc' = "drive"
           /\ ready' = Tail(ready) \o Arrivals(curTime, procList) \o <<idx>>
           /\ idx' = ready'[1]
           /\ timeToNextSched' = timeQuantum - 1)]_vars

C15_PreemptedGoesLast_Intact ==
  [][(/\ pc = "select"
      /\ ~corrupt
      /\ policy = "RR"
      /\ idx # None
      /\ ready # <<>>
      /\ ready[1] = idx
      /\ timeToNextSched = 0
      /\ ~procList[idx].isDone
      /\ pc' # "select")
       => (/\ pc' = "drive"
           /\ ready' = Tail(ready) \o Arrivals(curTime, procList) \o <<idx>>
           /\ idx' = ready'[1]
           /\ timeToNextSched' = timeQuantum - 1)]_vars

\* C16: an index returned by a policy is that of a process that has arrived
\* and is not done.
C16_ReturnsReadyProcess ==
  (pc = "drive" /\ idx # None) => idx \in ReadySet(curTime, procList)

C16_ReturnsReadyProcess_Intact ==
  (~everUB /\ policy # "SPN") => C16_ReturnsReadyProcess

\* C17: a call made while some process is ready returns an index.
C17_WorkConserving ==
  (pc = "drive" /\ ReadySet(curTime, procList) # {}) => idx # None

C17_WorkConserving_Intact == ~everUB => C17_WorkConserving

\* C18: every run ends with all processes done (as far as the model follows it).
C18_EventuallyDone == <>(AllDone(procList) \/ BoundReached)

C18_EventuallyDone_Intact == <>(AllDone(procList) \/ BoundReached \/ everUB)

\* C19: when a Round Robin call has returned, the countdown is between 0 and
\* timeQuantum - 1, and it is 0 if the call returned none.
C19_CountdownRange ==
  (policy = "RR" /\ pc = "drive")
    => /\ 0 <= timeToNextSched
       /\ timeToNextSched <= timeQuantum - 1
       /\ idx = None => timeToNextSched = 0

\* a call on a queue that had drained returned none
C19_Witness ==
  /\ policy = "RR" /\ pc = "drive" /\ idx = None /\ EverRan /\ ~everUB
  /\ timeToNextSched = 0

\* C20: when an SRT or HRRN call has returned, every ready process is in the
\* list exactly once and the index returned is the list's first entry.
C20_ListIsReadySet ==
  (policy \in {"SRT", "HRRN"} /\ pc = "drive")
    => /\ \A i \in ReadySet(curTime, procList) : Occurrences(ReadyOf, i) = 1
       /\ idx = IF ReadyOf # <<>> THEN ReadyOf[1] ELSE None

C20_ListIsReadySet_Intact == ~everUB => C20_ListIsReadySet

====
